---- MODULE Spec2Model ----
(***************************************************************************)
(* Model of ss.py, the moviestream scaffolding script.                     *)
(*                                                                         *)
(* create_structure() is a straight-line sequence of os.makedirs(...,      *)
(* exist_ok=True) and create_file(...) calls against the process's working *)
(* directory.  The model keeps the filesystem as a function from paths to  *)
(* nodes, runs the calls one at a time in source order, and lets an        *)
(* uncaught OSError end the run, as it does in Python.                     *)
(*                                                                         *)
(* A path is a sequence of segments relative to the working directory,     *)
(* which is the empty sequence.                                            *)
(***************************************************************************)
EXTENDS Naturals, Sequences, FiniteSets

VARIABLES
    fs,       \* the filesystem: path -> node
    fs0,      \* the filesystem as it was when the current run started
    status,   \* "idle", "running", "completed" (message printed), "aborted"
    pc,       \* index in Program of the next call of the running script
    run,      \* number of runs started so far
    trace     \* calls issued by the current run, in order, with their outcome

vars == <<fs, fs0, status, pc, run, trace>>

\* Bounds of the model.
MaxPre == 1        \* entries present under the working directory before the first run
MaxContent == 1    \* largest length of a pre-existing file
MaxRuns == 2       \* runs of the script in a row

-----------------------------------------------------------------------------
(* Paths *)

\* os.path.join(a, *ps) with relative components: the segments of a followed
\* by the components ps.
Join(a, ps) == a \o ps

\* os.path.split(name)[0]
Parent(p) == SubSeq(p, 1, Len(p) - 1)

IsPrefix(a, b) == Len(a) <= Len(b) /\ SubSeq(b, 1, Len(a)) = a

IsProperPrefix(a, b) == Len(a) < Len(b) /\ IsPrefix(a, b)

Prefixes(p) == {SubSeq(p, 1, n) : n \in 0..Len(p)}

cwd == <<>>

-----------------------------------------------------------------------------
(* The calls of the script *)

MakedirsCall(p, exist_ok) == [op |-> "makedirs", path |-> p, exist_ok |-> exist_ok]

CreateFileCall(p) == [op |-> "create_file", path |-> p, exist_ok |-> FALSE]

\* for file in files: create_file(os.path.join(dir, file))
ForEachFile(dir, files) == [i \in 1..Len(files) |-> CreateFileCall(Join(dir, files[i]))]

root_dir ==
    <<"moviestream">>

calls_Root_directory ==
    <<MakedirsCall(root_dir, TRUE)>>

root_files ==
    << <<".env.local">>,
       <<".env.example">>,
       <<".gitignore">>,
       <<"package.json">>,
       <<"package-lock.json">>,
       <<"next.config.js">>,
       <<"tailwind.config.js">>,
       <<"tsconfig.json">>,
       <<"components.json">>,
       <<"middleware.ts">>,
       <<"README.md">> >>

calls_Root_files ==
    ForEachFile(root_dir, root_files)

\* A variant of app_dir that leaves out the root.
app_dir_cwd ==
    <<"app">>

app_dir ==
    Join(root_dir, <<"app">>)

calls_app_directory ==
    <<MakedirsCall(app_dir, TRUE)>>

app_files ==
    << <<"globals.css">>,
       <<"layout.tsx">>,
       <<"page.tsx">>,
       <<"loading.tsx">>,
       <<"error.tsx">>,
       <<"not-found.tsx">> >>

calls_app_root_files ==
    ForEachFile(app_dir, app_files)

auth_dir ==
    Join(app_dir, <<"(auth)">>)

calls_app_auth ==
    <<MakedirsCall(auth_dir, TRUE)>>
    \o <<MakedirsCall(Join(auth_dir, <<"login">>), TRUE)>>
    \o <<CreateFileCall(Join(auth_dir, <<"login", "page.tsx">>))>>
    \o <<MakedirsCall(Join(auth_dir, <<"register">>), TRUE)>>
    \o <<CreateFileCall(Join(auth_dir, <<"register", "page.tsx">>))>>
    \o <<CreateFileCall(Join(auth_dir, <<"layout.tsx">>))>>

dashboard_dir ==
    Join(app_dir, <<"(dashboard)">>)

calls_app_dashboard ==
    <<MakedirsCall(dashboard_dir, TRUE)>>
    \o <<MakedirsCall(Join(dashboard_dir, <<"dashboard">>), TRUE)>>
    \o <<CreateFileCall(Join(dashboard_dir, <<"dashboard", "page.tsx">>))>>
    \o <<MakedirsCall(Join(dashboard_dir, <<"dashboard", "profile">>), TRUE)>>
    \o <<CreateFileCall(Join(dashboard_dir, <<"dashboard", "profile", "page.tsx">>))>>
    \o <<MakedirsCall(Join(dashboard_dir, <<"dashboard", "subscription">>), TRUE)>>
    \o <<CreateFileCall(Join(dashboard_dir, <<"dashboard", "subscription", "page.tsx">>))>>
    \o <<MakedirsCall(Join(dashboard_dir, <<"dashboard", "watchlist">>), TRUE)>>
    \o <<CreateFileCall(Join(dashboard_dir, <<"dashboard", "watchlist", "page.tsx">>))>>
    \o <<CreateFileCall(Join(dashboard_dir, <<"layout.tsx">>))>>

admin_dir ==
    Join(app_dir, <<"(admin)">>)

calls_app_admin ==
    <<MakedirsCall(admin_dir, TRUE)>>
    \o <<MakedirsCall(Join(admin_dir, <<"admin">>), TRUE)>>
    \o <<CreateFileCall(Join(admin_dir, <<"admin", "page.tsx">>))>>
    \o <<MakedirsCall(Join(admin_dir, <<"admin", "movies">>), TRUE)>>
    \o <<CreateFileCall(Join(admin_dir, <<"admin", "movies", "page.tsx">>))>>
    \o <<MakedirsCall(Join(admin_dir, <<"admin", "movies", "add">>), TRUE)>>
    \o <<CreateFileCall(Join(admin_dir, <<"admin", "movies", "add", "page.tsx">>))>>
    \o <<MakedirsCall(Join(admin_dir, <<"admin", "movies", "edit", "[id]">>), TRUE)>>
    \o <<CreateFileCall(Join(admin_dir, <<"admin", "movies", "edit", "[id]", "page.tsx">>))>>
    \o <<MakedirsCall(Join(admin_dir, <<"admin", "movies", "[id]">>), TRUE)>>
    \o <<CreateFileCall(Join(admin_dir, <<"admin", "movies", "[id]", "page.tsx">>))>>
    \o <<MakedirsCall(Join(admin_dir, <<"admin", "genres">>), TRUE)>>
    \o <<CreateFileCall(Join(admin_dir, <<"admin", "genres", "page.tsx">>))>>
    \o <<MakedirsCall(Join(admin_dir, <<"admin", "genres", "add">>), TRUE)>>
    \o <<CreateFileCall(Join(admin_dir, <<"admin", "genres", "add", "page.tsx">>))>>
    \o <<MakedirsCall(Join(admin_dir, <<"admin", "genres", "edit", "[id]">>), TRUE)>>
    \o <<CreateFileCall(Join(admin_dir, <<"admin", "genres", "edit", "[id]", "page.tsx">>))>>
    \o <<MakedirsCall(Join(admin_dir, <<"admin", "users">>), TRUE)>>
    \o <<CreateFileCall(Join(admin_dir, <<"admin", "users", "page.tsx">>))>>
    \o <<MakedirsCall(Join(admin_dir, <<"admin", "users", "[id]">>), TRUE)>>
    \o <<CreateFileCall(Join(admin_dir, <<"admin", "users", "[id]", "page.tsx">>))>>
    \o <<MakedirsCall(Join(admin_dir, <<"admin", "subscriptions">>), TRUE)>>
    \o <<CreateFileCall(Join(admin_dir, <<"admin", "subscriptions", "page.tsx">>))>>
    \o <<MakedirsCall(Join(admin_dir, <<"admin", "analytics">>), TRUE)>>
    \o <<CreateFileCall(Join(admin_dir, <<"admin", "analytics", "page.tsx">>))>>
    \o <<MakedirsCall(Join(admin_dir, <<"admin", "settings">>), TRUE)>>
    \o <<CreateFileCall(Join(admin_dir, <<"admin", "settings", "page.tsx">>))>>
    \o <<MakedirsCall(Join(admin_dir, <<"admin", "settings", "storage">>), TRUE)>>
    \o <<CreateFileCall(Join(admin_dir, <<"admin", "settings", "storage", "page.tsx">>))>>
    \o <<MakedirsCall(Join(admin_dir, <<"admin", "settings", "payment">>), TRUE)>>
    \o <<CreateFileCall(Join(admin_dir, <<"admin", "settings", "payment", "page.tsx">>))>>
    \o <<MakedirsCall(Join(admin_dir, <<"admin", "settings", "tmdb">>), TRUE)>>
    \o <<CreateFileCall(Join(admin_dir, <<"admin", "settings", "tmdb", "page.tsx">>))>>
    \o <<MakedirsCall(Join(admin_dir, <<"admin", "settings", "plans">>), TRUE)>>
    \o <<CreateFileCall(Join(admin_dir, <<"admin", "settings", "plans", "page.tsx">>))>>
    \o <<CreateFileCall(Join(admin_dir, <<"layout.tsx">>))>>

browse_dir ==
    Join(app_dir, <<"browse">>)

calls_app_browse ==
    <<MakedirsCall(browse_dir, TRUE)>>
    \o <<CreateFileCall(Join(browse_dir, <<"page.tsx">>))>>
    \o <<MakedirsCall(Join(browse_dir, <<"genre", "[slug]">>), TRUE)>>
    \o <<CreateFileCall(Join(browse_dir, <<"genre", "[slug]", "page.tsx">>))>>
    \o <<MakedirsCall(Join(browse_dir, <<"search">>), TRUE)>>
    \o <<CreateFileCall(Join(browse_dir, <<"search", "page.tsx">>))>>

movie_dir ==
    Join(app_dir, <<"movie", "[id]">>)

calls_app_movie ==
    <<MakedirsCall(movie_dir, TRUE)>>
    \o <<CreateFileCall(Join(movie_dir, <<"page.tsx">>))>>
    \o <<MakedirsCall(Join(movie_dir, <<"watch">>), TRUE)>>
    \o <<CreateFileCall(Join(movie_dir, <<"watch", "page.tsx">>))>>

pricing_dir ==
    Join(app_dir, <<"pricing">>)

calls_app_pricing ==
    <<MakedirsCall(pricing_dir, TRUE)>>
    \o <<CreateFileCall(Join(pricing_dir, <<"page.tsx">>))>>

api_dir ==
    Join(app_dir, <<"api">>)

calls_app_api ==
    <<MakedirsCall(api_dir, TRUE)>>
    \o <<MakedirsCall(Join(api_dir, <<"auth", "[...nextauth]">>), TRUE)>>
    \o <<CreateFileCall(Join(api_dir, <<"auth", "[...nextauth]", "route.ts">>))>>
    \o <<MakedirsCall(Join(api_dir, <<"auth", "register">>), TRUE)>>
    \o <<CreateFileCall(Join(api_dir, <<"auth", "register", "route.ts">>))>>
    \o <<MakedirsCall(Join(api_dir, <<"auth", "profile">>), TRUE)>>
    \o <<CreateFileCall(Join(api_dir, <<"auth", "profile", "route.ts">>))>>
    \o <<MakedirsCall(Join(api_dir, <<"movies">>), TRUE)>>
    \o <<CreateFileCall(Join(api_dir, <<"movies", "route.ts">>))>>
    \o <<MakedirsCall(Join(api_dir, <<"movies", "[id]">>), TRUE)>>
    \o <<CreateFileCall(Join(api_dir, <<"movies", "[id]", "route.ts">>))>>
    \o <<MakedirsCall(Join(api_dir, <<"movies", "search">>), TRUE)>>
    \o <<CreateFileCall(Join(api_dir, <<"movies", "search", "route.ts">>))>>
    \o <<MakedirsCall(Join(api_dir, <<"movies", "stream", "[id]">>), TRUE)>>
    \o <<CreateFileCall(Join(api_dir, <<"movies", "stream", "[id]", "route.ts">>))>>
    \o <<MakedirsCall(Join(api_dir, <<"genres">>), TRUE)>>
    \o <<CreateFileCall(Join(api_dir, <<"genres", "route.ts">>))>>
    \o <<MakedirsCall(Join(api_dir, <<"genres", "[id]">>), TRUE)>>
    \o <<CreateFileCall(Join(api_dir, <<"genres", "[id]", "route.ts">>))>>
    \o <<MakedirsCall(Join(api_dir, <<"users">>), TRUE)>>
    \o <<CreateFileCall(Join(api_dir, <<"users", "route.ts">>))>>
    \o <<MakedirsCall(Join(api_dir, <<"users", "[id]">>), TRUE)>>
    \o <<CreateFileCall(Join(api_dir, <<"users", "[id]", "route.ts">>))>>
    \o <<MakedirsCall(Join(api_dir, <<"subscriptions">>), TRUE)>>
    \o <<CreateFileCall(Join(api_dir, <<"subscriptions", "route.ts">>))>>
    \o <<MakedirsCall(Join(api_dir, <<"subscriptions", "plans">>), TRUE)>>
    \o <<CreateFileCall(Join(api_dir, <<"subscriptions", "plans", "route.ts">>))>>
    \o <<MakedirsCall(Join(api_dir, <<"subscriptions", "checkout">>), TRUE)>>
    \o <<CreateFileCall(Join(api_dir, <<"subscriptions", "checkout", "route.ts">>))>>
    \o <<MakedirsCall(Join(api_dir, <<"subscriptions", "webhook">>), TRUE)>>
    \o <<CreateFileCall(Join(api_dir, <<"subscriptions", "webhook", "route.ts">>))>>
    \o <<MakedirsCall(Join(api_dir, <<"subscriptions", "cancel">>), TRUE)>>
    \o <<CreateFileCall(Join(api_dir, <<"subscriptions", "cancel", "route.ts">>))>>
    \o <<MakedirsCall(Join(api_dir, <<"admin", "settings">>), TRUE)>>
    \o <<CreateFileCall(Join(api_dir, <<"admin", "settings", "route.ts">>))>>
    \o <<MakedirsCall(Join(api_dir, <<"admin", "settings", "storage">>), TRUE)>>
    \o <<CreateFileCall(Join(api_dir, <<"admin", "settings", "storage", "route.ts">>))>>
    \o <<MakedirsCall(Join(api_dir, <<"admin", "settings", "tmdb">>), TRUE)>>
    \o <<CreateFileCall(Join(api_dir, <<"admin", "settings", "tmdb", "route.ts">>))>>
    \o <<MakedirsCall(Join(api_dir, <<"admin", "settings", "stripe">>), TRUE)>>
    \o <<CreateFileCall(Join(api_dir, <<"admin", "settings", "stripe", "route.ts">>))>>
    \o <<MakedirsCall(Join(api_dir, <<"admin", "analytics">>), TRUE)>>
    \o <<CreateFileCall(Join(api_dir, <<"admin", "analytics", "route.ts">>))>>
    \o <<MakedirsCall(Join(api_dir, <<"admin", "stats">>), TRUE)>>
    \o <<CreateFileCall(Join(api_dir, <<"admin", "stats", "route.ts">>))>>
    \o <<MakedirsCall(Join(api_dir, <<"upload", "video">>), TRUE)>>
    \o <<CreateFileCall(Join(api_dir, <<"upload", "video", "route.ts">>))>>
    \o <<MakedirsCall(Join(api_dir, <<"upload", "image">>), TRUE)>>
    \o <<CreateFileCall(Join(api_dir, <<"upload", "image", "route.ts">>))>>
    \o <<MakedirsCall(Join(api_dir, <<"upload", "subtitle">>), TRUE)>>
    \o <<CreateFileCall(Join(api_dir, <<"upload", "subtitle", "route.ts">>))>>
    \o <<MakedirsCall(Join(api_dir, <<"tmdb", "search">>), TRUE)>>
    \o <<CreateFileCall(Join(api_dir, <<"tmdb", "search", "route.ts">>))>>
    \o <<MakedirsCall(Join(api_dir, <<"tmdb", "movie", "[id]">>), TRUE)>>
    \o <<CreateFileCall(Join(api_dir, <<"tmdb", "movie", "[id]", "route.ts">>))>>
    \o <<MakedirsCall(Join(api_dir, <<"tmdb", "import">>), TRUE)>>
    \o <<CreateFileCall(Join(api_dir, <<"tmdb", "import", "route.ts">>))>>
    \o <<MakedirsCall(Join(api_dir, <<"health">>), TRUE)>>
    \o <<CreateFileCall(Join(api_dir, <<"health", "route.ts">>))>>

webhooks_dir ==
    Join(app_dir, <<"webhooks", "stripe">>)

calls_app_webhooks ==
    <<MakedirsCall(webhooks_dir, TRUE)>>
    \o <<CreateFileCall(Join(webhooks_dir, <<"route.ts">>))>>

components_dir ==
    Join(root_dir, <<"components">>)

ui_dir ==
    Join(components_dir, <<"ui">>)

ui_files ==
    << <<"button.tsx">>,
       <<"input.tsx">>,
       <<"card.tsx">>,
       <<"dialog.tsx">>,
       <<"dropdown-menu.tsx">>,
       <<"form.tsx">>,
       <<"label.tsx">>,
       <<"select.tsx">>,
       <<"table.tsx">>,
       <<"tabs.tsx">>,
       <<"toast.tsx">>,
       <<"toaster.tsx">>,
       <<"use-toast.tsx">>,
       <<"badge.tsx">>,
       <<"avatar.tsx">>,
       <<"progress.tsx">>,
       <<"slider.tsx">>,
       <<"switch.tsx">>,
       <<"textarea.tsx">>,
       <<"alert.tsx">>,
       <<"alert-dialog.tsx">>,
       <<"sheet.tsx">>,
       <<"skeleton.tsx">>,
       <<"popover.tsx">> >>

layout_dir ==
    Join(components_dir, <<"layout">>)

layout_files ==
    << <<"header.tsx">>,
       <<"footer.tsx">>,
       <<"sidebar.tsx">>,
       <<"navbar.tsx">>,
       <<"mobile-menu.tsx">> >>

auth_comp_dir ==
    Join(components_dir, <<"auth">>)

auth_files ==
    << <<"login-form.tsx">>,
       <<"register-form.tsx">>,
       <<"oauth-buttons.tsx">>,
       <<"auth-guard.tsx">>,
       <<"user-menu.tsx">> >>

movie_comp_dir ==
    Join(components_dir, <<"movie">>)

movie_files ==
    << <<"movie-card.tsx">>,
       <<"movie-grid.tsx">>,
       <<"movie-hero.tsx">>,
       <<"movie-player.tsx">>,
       <<"movie-details.tsx">>,
       <<"movie-form.tsx">>,
       <<"genre-filter.tsx">>,
       <<"search-bar.tsx">>,
       <<"trailer-modal.tsx">>,
       <<"subtitle-selector.tsx">> >>

admin_comp_dir ==
    Join(components_dir, <<"admin">>)

admin_files ==
    << <<"dashboard-stats.tsx">>,
       <<"admin-header.tsx">>,
       <<"data-table.tsx">>,
       <<"upload-manager.tsx">>,
       <<"s3-settings.tsx">>,
       <<"stripe-settings.tsx">>,
       <<"tmdb-settings.tsx">>,
       <<"plan-manager.tsx">>,
       <<"analytics-charts.tsx">> >>

subscription_comp_dir ==
    Join(components_dir, <<"subscription">>)

subscription_files ==
    << <<"pricing-card.tsx">>,
       <<"subscription-status.tsx">>,
       <<"payment-form.tsx">>,
       <<"billing-history.tsx">> >>

common_comp_dir ==
    Join(components_dir, <<"common">>)

common_files ==
    << <<"loading-spinner.tsx">>,
       <<"error-boundary.tsx">>,
       <<"confirmation-dialog.tsx">>,
       <<"image-upload.tsx">>,
       <<"video-upload.tsx">>,
       <<"pagination.tsx">>,
       <<"breadcrumb.tsx">> >>

calls_components ==
    <<MakedirsCall(components_dir, TRUE)>>
    \o <<MakedirsCall(ui_dir, TRUE)>>
    \o ForEachFile(ui_dir, ui_files)
    \o <<MakedirsCall(layout_dir, TRUE)>>
    \o ForEachFile(layout_dir, layout_files)
    \o <<MakedirsCall(auth_comp_dir, TRUE)>>
    \o ForEachFile(auth_comp_dir, auth_files)
    \o <<MakedirsCall(movie_comp_dir, TRUE)>>
    \o ForEachFile(movie_comp_dir, movie_files)
    \o <<MakedirsCall(admin_comp_dir, TRUE)>>
    \o ForEachFile(admin_comp_dir, admin_files)
    \o <<MakedirsCall(subscription_comp_dir, TRUE)>>
    \o ForEachFile(subscription_comp_dir, subscription_files)
    \o <<MakedirsCall(common_comp_dir, TRUE)>>
    \o ForEachFile(common_comp_dir, common_files)

lib_dir ==
    Join(root_dir, <<"lib">>)

lib_files ==
    << <<"auth.ts">>,
       <<"db.ts">>,
       <<"s3.ts">>,
       <<"stripe.ts">>,
       <<"tmdb.ts">>,
       <<"utils.ts">>,
       <<"validations.ts">>,
       <<"constants.ts">>,
       <<"email.ts">>,
       <<"cache.ts">> >>

calls_lib ==
    <<MakedirsCall(lib_dir, TRUE)>>
    \o ForEachFile(lib_dir, lib_files)

models_dir ==
    Join(root_dir, <<"models">>)

models_files ==
    << <<"User.ts">>,
       <<"Movie.ts">>,
       <<"Genre.ts">>,
       <<"Subscription.ts">>,
       <<"Settings.ts">>,
       <<"WatchHistory.ts">>,
       <<"Subtitle.ts">> >>

calls_models ==
    <<MakedirsCall(models_dir, TRUE)>>
    \o ForEachFile(models_dir, models_files)

types_dir ==
    Join(root_dir, <<"types">>)

types_files ==
    << <<"auth.ts">>,
       <<"movie.ts">>,
       <<"user.ts">>,
       <<"subscription.ts">>,
       <<"admin.ts">>,
       <<"api.ts">>,
       <<"index.ts">> >>

calls_types ==
    <<MakedirsCall(types_dir, TRUE)>>
    \o ForEachFile(types_dir, types_files)

hooks_dir ==
    Join(root_dir, <<"hooks">>)

hooks_files ==
    << <<"use-auth.ts">>,
       <<"use-movies.ts">>,
       <<"use-subscription.ts">>,
       <<"use-upload.ts">>,
       <<"use-admin.ts">>,
       <<"use-search.ts">>,
       <<"use-local-storage.ts">> >>

calls_hooks ==
    <<MakedirsCall(hooks_dir, TRUE)>>
    \o ForEachFile(hooks_dir, hooks_files)

contexts_dir ==
    Join(root_dir, <<"contexts">>)

contexts_files ==
    << <<"auth-context.tsx">>,
       <<"theme-context.tsx">>,
       <<"admin-context.tsx">>,
       <<"subscription-context.tsx">> >>

calls_contexts ==
    <<MakedirsCall(contexts_dir, TRUE)>>
    \o ForEachFile(contexts_dir, contexts_files)

utils_dir ==
    Join(root_dir, <<"utils">>)

utils_files ==
    << <<"format.ts">>,
       <<"validation.ts">>,
       <<"encryption.ts">>,
       <<"file-upload.ts">>,
       <<"video-processing.ts">>,
       <<"error-handling.ts">> >>

calls_utils ==
    <<MakedirsCall(utils_dir, TRUE)>>
    \o ForEachFile(utils_dir, utils_files)

config_dir ==
    Join(root_dir, <<"config">>)

config_files ==
    << <<"database.ts">>,
       <<"storage.ts">>,
       <<"auth.ts">>,
       <<"api.ts">> >>

calls_config ==
    <<MakedirsCall(config_dir, TRUE)>>
    \o ForEachFile(config_dir, config_files)

\* A variant of middleware_dir that reuses the name of the root file middleware.ts.
middleware_dir_ts ==
    Join(root_dir, <<"middleware.ts">>)

middleware_dir ==
    Join(root_dir, <<"middleware">>)

middleware_files ==
    << <<"auth-middleware.ts">>,
       <<"admin-middleware.ts">>,
       <<"subscription-middleware.ts">>,
       <<"rate-limit-middleware.ts">> >>

calls_middleware ==
    <<MakedirsCall(middleware_dir, TRUE)>>
    \o ForEachFile(middleware_dir, middleware_files)

scripts_dir ==
    Join(root_dir, <<"scripts">>)

scripts_files ==
    << <<"seed-db.ts">>,
       <<"migrate-db.ts">>,
       <<"setup-admin.ts">> >>

calls_scripts ==
    <<MakedirsCall(scripts_dir, TRUE)>>
    \o ForEachFile(scripts_dir, scripts_files)

styles_dir ==
    Join(root_dir, <<"styles">>)

styles_files ==
    << <<"components.css">>,
       <<"video-player.css">>,
       <<"admin.css">> >>

calls_styles ==
    <<MakedirsCall(styles_dir, TRUE)>>
    \o ForEachFile(styles_dir, styles_files)

public_dir ==
    Join(root_dir, <<"public">>)

public_files ==
    << Join(<<"images">>, <<"logo.png">>),
       Join(<<"images">>, <<"placeholder-movie.jpg">>),
       Join(<<"images">>, <<"hero-bg.jpg">>),
       Join(<<"videos">>, <<"trailer-placeholder.mp4">>),
       <<"favicon.ico">> >>

calls_public ==
    <<MakedirsCall(public_dir, TRUE)>>
    \o <<MakedirsCall(Join(public_dir, <<"images", "icons">>), TRUE)>>
    \o ForEachFile(public_dir, public_files)

docs_dir ==
    Join(root_dir, <<"docs">>)

docs_files ==
    << <<"api.md">>,
       <<"setup.md">>,
       <<"deployment.md">>,
       <<"features.md">> >>

calls_docs ==
    <<MakedirsCall(docs_dir, TRUE)>>
    \o ForEachFile(docs_dir, docs_files)

tests_dir ==
    Join(root_dir, <<"tests">>)

calls_tests ==
    <<MakedirsCall(tests_dir, TRUE)>>
    \o <<MakedirsCall(Join(tests_dir, <<"__mocks__">>), TRUE)>>
    \o <<MakedirsCall(Join(tests_dir, <<"api">>), TRUE)>>
    \o <<MakedirsCall(Join(tests_dir, <<"components">>), TRUE)>>
    \o <<MakedirsCall(Join(tests_dir, <<"pages">>), TRUE)>>
    \o <<MakedirsCall(Join(tests_dir, <<"utils">>), TRUE)>>
    \o <<CreateFileCall(Join(tests_dir, <<"setup.ts">>))>>

Program ==
    calls_Root_directory
    \o calls_Root_files
    \o calls_app_directory
    \o calls_app_root_files
    \o calls_app_auth
    \o calls_app_dashboard
    \o calls_app_admin
    \o calls_app_browse
    \o calls_app_movie
    \o calls_app_pricing
    \o calls_app_api
    \o calls_app_webhooks
    \o calls_components
    \o calls_lib
    \o calls_models
    \o calls_types
    \o calls_hooks
    \o calls_contexts
    \o calls_utils
    \o calls_config
    \o calls_middleware
    \o calls_scripts
    \o calls_styles
    \o calls_public
    \o calls_docs
    \o calls_tests

-----------------------------------------------------------------------------
(* Filesystem nodes *)

Absent == [kind |-> "absent", len |-> 0, w |-> TRUE]

Dir(w) == [kind |-> "dir", len |-> 0, w |-> w]

File(n, w) == [kind |-> "file", len |-> n, w |-> w]

Targets == {Program[i].path : i \in 1..Len(Program)}

\* Paths of the working directory that are outside the project root.
Outside == {<<"app">>, <<"README.md">>}

Universe == UNION {Prefixes(p) : p \in Targets \cup Outside}

Exists(f, p) == f[p].kind # "absent"

IsDir(f, p) == f[p].kind = "dir"

IsFile(f, p) == f[p].kind = "file"

UnderRoot(p) == IsPrefix(root_dir, p)

OutsideRoot == {p \in Universe : ~UnderRoot(p)}

-----------------------------------------------------------------------------
(* The operating system's calls, as Python raises their errors *)

Ok(f) == [fs |-> f, err |-> "ok"]

Raise(f, e) == [fs |-> f, err |-> e]

\* os.mkdir(p)
Mkdir(f, p) ==
    IF ~Exists(f, Parent(p)) THEN Raise(f, "FileNotFoundError")
    ELSE IF ~IsDir(f, Parent(p)) THEN Raise(f, "NotADirectoryError")
    ELSE IF Exists(f, p) THEN Raise(f, "FileExistsError")
    ELSE IF ~f[Parent(p)].w THEN Raise(f, "PermissionError")
    ELSE Ok([f EXCEPT ![p] = Dir(TRUE)])

\* A variant of SwallowLeafError that lacks the isdir test.
SwallowLeafError_any(f, name, exist_ok) == exist_ok

\* makedirs: "if not exist_ok or not path.isdir(name): raise", negated.
SwallowLeafError(f, name, exist_ok) == exist_ok /\ IsDir(f, name)

\* os.makedirs(name, exist_ok): create the missing ancestors, then the leaf;
\* an OSError of the leaf's mkdir is swallowed only if exist_ok and the leaf
\* is a directory.
RECURSIVE Makedirs(_, _, _)
Makedirs(f, name, exist_ok) ==
    LET head == Parent(name)
        up == IF head # cwd /\ ~Exists(f, head)
              THEN Makedirs(f, head, exist_ok)
              ELSE Ok(f)
    IN  IF up.err \notin {"ok", "FileExistsError"} THEN up
        ELSE LET leaf == Mkdir(up.fs, name)
             IN  IF leaf.err = "ok" THEN leaf
                 ELSE IF ~SwallowLeafError(up.fs, name, exist_ok) THEN leaf
                 ELSE Ok(up.fs)

\* A variant of TruncatedLen for a file opened in append mode.
TruncatedLen_keep(n) == n

\* What open(file_path, 'w') does to the file's length once it is open.
TruncatedLen(n) == 0

\* open(file_path, 'w'): create the file, or truncate it.
OpenW(f, p) ==
    IF ~Exists(f, Parent(p)) THEN Raise(f, "FileNotFoundError")
    ELSE IF ~IsDir(f, Parent(p)) THEN Raise(f, "NotADirectoryError")
    ELSE IF IsDir(f, p) THEN Raise(f, "IsADirectoryError")
    ELSE IF IsFile(f, p)
         THEN IF ~f[p].w THEN Raise(f, "PermissionError")
              ELSE Ok([f EXCEPT ![p] = File(TruncatedLen(f[p].len), f[p].w)])
    ELSE IF ~f[Parent(p)].w THEN Raise(f, "PermissionError")
    ELSE Ok([f EXCEPT ![p] = File(0, TRUE)])

\* create_file(file_path): open for writing, write nothing, close.
create_file(f, file_path) == OpenW(f, file_path)

\* One call of the script against filesystem f.
Exec(f, c) ==
    IF c.op = "makedirs" THEN Makedirs(f, c.path, c.exist_ok)
    ELSE create_file(f, c.path)

\* A variant of Advance that catches the exception and goes on.
Advance_isolated(i, err) == [status |-> "running", pc |-> i + 1]

\* A variant of Advance that loses a statement after each call.
Advance_skip(i, err) ==
    IF err = "ok" THEN [status |-> "running", pc |-> i + 2]
    ELSE [status |-> "aborted", pc |-> i]

\* Control flow after a call: an exception is caught nowhere, so it leaves
\* create_structure and the process; otherwise the next statement runs.
Advance(i, err) ==
    IF err = "ok" THEN [status |-> "running", pc |-> i + 1]
    ELSE [status |-> "aborted", pc |-> i]

\* What the run has observed of a call: the call, the kind of the target's
\* parent and the target's node at the moment the call is issued, the
\* target's node when the call returns or raises, and the outcome.
Issued(f, c, r) ==
    [op |-> c.op, path |-> c.path, parent |-> f[Parent(c.path)].kind,
     before |-> f[c.path], after |-> r.fs[c.path],
     ok |-> r.err = "ok", err |-> r.err]

-----------------------------------------------------------------------------
(* Initial filesystems *)

videos_dir == Join(public_dir, <<"videos">>)

\* Entries that may be present before the first run, each with its node.
CandidateNodes ==
    {<<root_dir, File(0, TRUE)>>,
     <<root_dir, Dir(FALSE)>>,
     <<Join(root_dir, <<"middleware">>), Dir(TRUE)>>,
     <<lib_dir, Dir(FALSE)>>,
     <<Join(app_dir, <<"movie">>), File(0, TRUE)>>,
     <<videos_dir, Dir(TRUE)>>,
     <<videos_dir, File(0, TRUE)>>,
     <<Join(tests_dir, <<"setup.ts">>), Dir(TRUE)>>,
     <<Join(docs_dir, <<"api.md">>), File(0, FALSE)>>,
     <<<<"app">>, Dir(TRUE)>>}
    \cup UNION {{<<Join(root_dir, <<"README.md">>), File(n, TRUE)>>,
                 <<lib_dir, File(n, TRUE)>>,
                 <<Join(videos_dir, <<"trailer-placeholder.mp4">>), File(n, TRUE)>>,
                 <<Join(tests_dir, <<"setup.ts">>), File(n, TRUE)>>,
                 <<<<"README.md">>, File(n, TRUE)>>} : n \in 1..MaxContent}

\* No path twice, and nothing below a file.
Consistent(S) ==
    \A a \in S : \A b \in S :
        /\ (a[1] = b[1] => a = b)
        /\ (IsProperPrefix(a[1], b[1]) => a[2].kind = "dir")

RECURSIVE Pick(_)
Pick(k) ==
    IF k = 0 THEN {{}}
    ELSE LET prev == Pick(k - 1)
         IN  prev \cup {S \cup {c} : S \in prev, c \in CandidateNodes}

\* The filesystem holding the entries S and the directories leading to them.
FsOf(S) ==
    [p \in Universe |->
        IF \E c \in S : c[1] = p THEN (CHOOSE c \in S : c[1] = p)[2]
        ELSE IF p = cwd \/ \E c \in S : IsProperPrefix(p, c[1]) THEN Dir(TRUE)
        ELSE Absent]

InitFS == {FsOf(S) : S \in {T \in Pick(MaxPre) : Consistent(T)}}

-----------------------------------------------------------------------------
(* The run *)

Init ==
    /\ fs \in InitFS
    /\ fs0 = fs
    /\ status = "idle"
    /\ pc = 0
    /\ run = 0
    /\ trace = <<>>

\* python ss.py: __main__ calls create_structure().
Start ==
    /\ status \in {"idle", "completed", "aborted"}
    /\ run < MaxRuns
    /\ status' = "running"
    /\ pc' = 1
    /\ run' = run + 1
    /\ trace' = <<>>
    /\ fs0' = fs
    /\ UNCHANGED fs

\* The statement at pc is an os.makedirs call.
DoMakedirs ==
    /\ status = "running"
    /\ pc \in 1..Len(Program)
    /\ Program[pc].op = "makedirs"
    /\ LET r == Exec(fs, Program[pc])
           a == Advance(pc, r.err)
       IN  /\ fs' = r.fs
           /\ trace' = Append(trace, Issued(fs, Program[pc], r))
           /\ status' = a.status
           /\ pc' = a.pc
    /\ UNCHANGED <<fs0, run>>

\* The statement at pc is a create_file call.
DoCreateFile ==
    /\ status = "running"
    /\ pc \in 1..Len(Program)
    /\ Program[pc].op = "create_file"
    /\ LET r == Exec(fs, Program[pc])
           a == Advance(pc, r.err)
       IN  /\ fs' = r.fs
           /\ trace' = Append(trace, Issued(fs, Program[pc], r))
           /\ status' = a.status
           /\ pc' = a.pc
    /\ UNCHANGED <<fs0, run>>

\* print("Project structure created successfully ..."), the last statement.
PrintSuccess ==
    /\ status = "running"
    /\ pc = Len(Program) + 1
    /\ status' = "completed"
    /\ UNCHANGED <<fs, fs0, pc, run, trace>>

Next == Start \/ DoMakedirs \/ DoCreateFile \/ PrintSuccess

Spec == Init /\ [][Next]_vars

-----------------------------------------------------------------------------
(* What the script declares *)

DeclaredDirs == {Program[i].path : i \in {j \in 1..Len(Program) : Program[j].op = "makedirs"}}

DeclaredFiles == {Program[i].path : i \in {j \in 1..Len(Program) : Program[j].op = "create_file"}}

Ended == status \in {"completed", "aborted"}

\* Every declared directory is a directory and every declared file is an
\* empty regular file.
FullTree(f) ==
    /\ \A d \in DeclaredDirs : IsDir(f, d)
    /\ \A p \in DeclaredFiles : IsFile(f, p) /\ f[p].len = 0

NoFailure == \A i \in DOMAIN trace : trace[i].ok

\* A filesystem in which nothing stands in the script's way: no node of the
\* wrong kind on a declared path or above one, and nothing read-only.
Unobstructed(f) ==
    /\ \A p \in Universe : f[p].w
    /\ \A d \in DeclaredDirs : ~IsFile(f, d)
    /\ \A p \in DeclaredFiles : ~IsDir(f, p) /\ ~IsFile(f, Parent(p))
    /\ \A p \in Universe : IsFile(f, p) => p \in DeclaredFiles \/ ~UnderRoot(p)

-----------------------------------------------------------------------------
(* Claims *)

\* C1 (as stated; the script violates it): every create_file call is issued
\* while the parent directory of its target exists on disk.  Stated for the
\* runs that start on a filesystem in which nothing obstructs the script, an
\* empty working directory among them, so that a missing parent is the
\* script's doing.
C1_AncestorBeforeChild ==
    \A i \in DOMAIN trace :
        trace[i].op = "create_file" =>
            trace[i].parent = "dir" \/ ~Unobstructed(fs0)

\* C2 (as stated; the script violates it): a run started where 'moviestream'
\* does not exist and nothing is read-only ends by reporting completion, with
\* every declared directory and empty file on disk and no failed call.
C2_CompletionOnCleanRoot ==
    (Ended /\ ~Exists(fs0, root_dir) /\ Unobstructed(fs0))
        => status = "completed" /\ FullTree(fs) /\ NoFailure

\* C3 (as stated; the script violates it): a second run in a row, on a
\* filesystem in which nothing obstructs the script, fails on no entry,
\* creates no path that was not present and leaves the filesystem as the
\* first run left it.
C3_Idempotence ==
    (Ended /\ run = 2 /\ Unobstructed(fs0))
        => /\ NoFailure
           /\ Len(trace) = Len(Program)
           /\ \A p \in Universe : Exists(fs, p) => Exists(fs0, p)
           /\ fs = fs0

\* C4 (as stated; refuted): a declared file that was a regular file when the
\* run started keeps its content, and its create_file call succeeds.
C4_ExistingContentPreserved ==
    /\ \A p \in DeclaredFiles : IsFile(fs0, p) => fs[p] = fs0[p]
    /\ \A i \in DOMAIN trace :
           (trace[i].op = "create_file" /\ IsFile(fs0, trace[i].path)) => trace[i].ok

\* C4 (amended): a create_file call that finds a regular file at its target
\* finds the file the run started with; the call succeeds if the file is
\* writable, and a successful call leaves the file with length zero (a
\* refused call leaves it as it was).
C4_ExistingFileTruncated ==
    \A i \in DOMAIN trace :
        (trace[i].op = "create_file" /\ trace[i].before.kind = "file") =>
            /\ trace[i].before = fs0[trace[i].path]
            /\ trace[i].before.w => trace[i].ok
            /\ trace[i].ok => fs[trace[i].path] = File(0, trace[i].before.w)
            /\ ~trace[i].ok => fs[trace[i].path] = trace[i].before

\* C4 witness: a pre-existing file with content has been reached and truncated.
C4_Witness ==
    \E i \in DOMAIN trace :
        /\ trace[i].op = "create_file"
        /\ IsFile(fs0, trace[i].path)
        /\ fs0[trace[i].path].len > 0
        /\ trace[i].ok
        /\ fs[trace[i].path].len = 0

\* C5 (as stated; refuted): a failed call does not keep the run from issuing
\* the calls that follow it, so a run that has ended has issued every call.
C5_FailureIsolation ==
    (Ended /\ ~NoFailure) => Len(trace) = Len(Program)

\* C5 (amended): a failed call is the last call of its run: the run is
\* aborted at that call and no later call is issued.
C5_FailureEndsRun ==
    \A k \in DOMAIN trace :
        ~trace[k].ok => k = Len(trace) /\ status = "aborted" /\ pc = k

\* C5 witness: a run aborted by a failed call with calls left unissued.
C5_Witness ==
    /\ status = "aborted"
    /\ trace # <<>>
    /\ ~trace[Len(trace)].ok
    /\ Len(trace) < Len(Program)

\* C6 (as stated; refuted): when a regular file occupied a declared
\* directory's path at the start of a run that has ended and reached that
\* path, exactly that call failed, and every call whose target is not under
\* the path was issued and succeeded; the file is still in place.
C6_ConflictIsolated ==
    \A d \in DeclaredDirs :
        (Ended /\ IsFile(fs0, d) /\ \E i \in DOMAIN trace : trace[i].path = d) =>
            /\ \A i \in DOMAIN trace : ~trace[i].ok <=> trace[i].path = d
            /\ \A j \in 1..Len(Program) :
                   ~IsPrefix(d, Program[j].path) =>
                       \E i \in DOMAIN trace :
                           trace[i].path = Program[j].path /\ trace[i].ok
            /\ fs[d] = fs0[d]

\* C6 (amended): when a regular file occupies a declared directory's path at
\* the start of a run, the makedirs call on that path fails with
\* FileExistsError and is the last call of the run, the run never reports
\* completion, and the file stays as it was.
C6_ConflictAbortsRun ==
    \A d \in DeclaredDirs :
        IsFile(fs0, d) =>
            /\ fs[d] = fs0[d]
            /\ status # "completed"
            /\ \A i \in DOMAIN trace :
                   trace[i].path = d =>
                       /\ ~trace[i].ok
                       /\ trace[i].err = "FileExistsError"
                       /\ i = Len(trace)
                       /\ status = "aborted"

\* C6 witness: the run was aborted by the makedirs call on a path held by a
\* regular file below the root, with later calls unissued.
C6_Witness ==
    \E d \in DeclaredDirs :
        /\ d # root_dir
        /\ IsFile(fs0, d)
        /\ status = "aborted"
        /\ trace # <<>>
        /\ trace[Len(trace)].path = d
        /\ Len(trace) < Len(Program)

\* C7 (as stated; refuted): every makedirs call is issued before the first
\* create_file call.
C7_DirsBeforeFiles ==
    \A i \in DOMAIN trace : \A j \in DOMAIN trace :
        (trace[i].op = "makedirs" /\ trace[j].op = "create_file") => i < j

\* C7 (amended): the calls are issued in the script's source order, the
\* k-th call issued being the k-th call of create_structure, starting with
\* the makedirs of the root; directory and file calls are interleaved, and
\* each class is therefore in blueprint order.
C7_SourceOrder ==
    /\ Len(trace) <= Len(Program)
    /\ \A k \in DOMAIN trace :
           trace[k].op = Program[k].op /\ trace[k].path = Program[k].path
    /\ trace # <<>> => trace[1].op = "makedirs" /\ trace[1].path = root_dir

\* C7 witness: a whole run in which a makedirs call follows a create_file call.
C7_Witness ==
    /\ status = "completed"
    /\ \E i \in DOMAIN trace : \E j \in DOMAIN trace :
           i < j /\ trace[i].op = "create_file" /\ trace[j].op = "makedirs"

\* C8: every call issued targets the root or a path under it, and every path
\* outside the root's subtree is as it was when the run started.
C8_Confinement ==
    /\ \A i \in DOMAIN trace : UnderRoot(trace[i].path)
    /\ \A p \in OutsideRoot : fs[p] = fs0[p]

\* C8 witness: a run has ended, having created the project's app and
\* README.md, next to an entry of the working directory that bears the same
\* name outside the root.
C8_Witness ==
    /\ Ended
    /\ ~Exists(fs0, root_dir)
    /\ IsDir(fs, app_dir)
    /\ IsFile(fs, Join(root_dir, <<"README.md">>))
    /\ \E p \in Outside : Exists(fs, p) /\ fs[p] = fs0[p]

\* C9: no path is the target of two calls of a run, of the same class or not.
C9_ExactlyOnce ==
    Cardinality({trace[i].path : i \in DOMAIN trace}) = Len(trace)

\* C9 witness: every call of the script has been issued.
C9_Witness ==
    /\ status = "completed"
    /\ Len(trace) = Len(Program)
    /\ Cardinality(DeclaredDirs) + Cardinality(DeclaredFiles) = Len(Program)

\* C10: when the success message has been printed, every declared directory
\* is a directory, every declared file is a regular file of length zero, and
\* no call of the run has failed.
C10_CompletionImpliesFullTree ==
    status = "completed" => FullTree(fs) /\ NoFailure

\* C10 witness: completion of a run that found a declared file with content.
C10_Witness ==
    /\ status = "completed"
    /\ \E p \in DeclaredFiles : IsFile(fs0, p) /\ fs0[p].len > 0 /\ fs[p].len = 0

\* C11: a failed call is the last call of its run and the run is aborted
\* there, so the success message is not printed; in the aborted run every
\* earlier call succeeded and its target is still as that call left it, the
\* failed call's target is as the call found it, and the target of every
\* call that was not issued is as it was when the run started.
C11_AbortLeavesPrefix ==
    /\ \A k \in DOMAIN trace :
           ~trace[k].ok => k = Len(trace) /\ status = "aborted"
    /\ status = "aborted" =>
           /\ trace # <<>>
           /\ ~trace[Len(trace)].ok
           /\ pc = Len(trace)
           /\ fs[trace[Len(trace)].path] = trace[Len(trace)].before
           /\ \A i \in 1..(Len(trace) - 1) :
                  trace[i].ok /\ fs[trace[i].path] = trace[i].after
           /\ \A j \in (Len(trace) + 1)..Len(Program) :
                  fs[Program[j].path] = fs0[Program[j].path]

\* C11 witness: a run aborted at a later call, after creating a path and
\* truncating a file with content, with calls left unissued.
C11_Witness ==
    /\ status = "aborted"
    /\ Len(trace) < Len(Program)
    /\ \E i \in 1..(Len(trace) - 1) :
           trace[i].before.kind = "absent" /\ Exists(fs, trace[i].path)
    /\ \E i \in 1..(Len(trace) - 1) :
           trace[i].before.len > 0 /\ fs[trace[i].path].len = 0
====
